---- MODULE Spec2Model ----
(***************************************************************************)
(* Model of internal/receiver/receiver.go: one Handle run of a Receiver.   *)
(*                                                                         *)
(* Handle discovers a sender from one UDP datagram, dials it over TCP,     *)
(* reads a length-prefixed file name, creates the destination file and     *)
(* copies the rest of the stream into it until end-of-stream.              *)
(*                                                                         *)
(* Bytes are numbers 0..255, strings are sequences (of bytes for what      *)
(* comes from the TCP stream, of one-character strings for the datagram).  *)
(* An error value is the chain of its fmt.Errorf contexts, outermost       *)
(* first, ending in the cause; nil is the empty chain.                     *)
(***************************************************************************)
EXTENDS Integers, Sequences, FiniteSets, TLC

\* ------------------------------------------------------------- bounds
MaxChunk == 2
MaxNameLen == 2
MaxContent == 3
MaxDatagram == 3
MaxPath == 4

MaxClock == 1

\* ------------------------------------------------- program constants
\* buffer := make([]byte, 1024)
UdpBufferSize == 1024
\* unsafe.Sizeof(uintType) for a uint32
LenPrefixSize == 4

\* path.Ext looks for the last '.' after the last '/'
Dot == 46
Slash == 47

VARIABLES
    chunkSize,          \* Receiver.chunkSize
    pc,                 \* the I/O call Handle is about to make
    udpInbox,           \* datagrams in flight to the discovery port
    udpOpen,            \* the discovery endpoint is bound and not closed
    message,            \* discover's message: the datagram text it read
    peer,               \* the address discover returned
    stream,             \* every byte the sender feeds into the connection
    pos,                \* how many of them the receiver has consumed
    conOpen,            \* the TCP connection is open
    fileNameLen,        \* receiveFileNameLen's result
    filePath,           \* receiveFileName's result
    destFilePath,       \* prepareDestFilePath's result
    fs,                 \* the working directory: destination name -> content
    fileOpen,           \* the destination file handle is open
    chunk,              \* the chunk buffer of receiveAndSaveFileContent
    bytesRead,          \* the last con.Read's count
    totalBytesReceived, \* the total the content loop logs
    err,                \* receiveAndSaveFileContent's pending return value
    result,             \* Handle's return value, once pc = "returned"
    clock,              \* time.Now().Unix()
    io,                 \* history: how the last call of each I/O kind ended
    bytesWritten,       \* history: the bytes file.Write calls have written
    calls,              \* history: how often the run bound, read and dialled
    run,                \* which Handle call this is
    prev,               \* history: what the Handle call before this one did
    released            \* history: the resources closed, in order

vars == <<chunkSize, pc, udpInbox, udpOpen, message, peer, stream, pos,
          conOpen, fileNameLen, filePath, destFilePath, fs, fileOpen, chunk,
          bytesRead, totalBytesReceived, err, result, clock, io, bytesWritten,
          calls, run, prev, released>>

\* ------------------------------------------------------------ helpers
Min(a, b) == IF a < b THEN a ELSE b

Take(s, n) == SubSeq(s, 1, Min(n, Len(s)))

Drop(s, n) == SubSeq(s, n + 1, Len(s))

IsPrefix(s, t) == Len(s) <= Len(t) /\ s = SubSeq(t, 1, Len(s))

SeqsUpTo(S, n) == UNION {[1..k -> S] : k \in 0..n}

\* ------------------------------------------------------------- errors
Nil == <<>>

IoErr == <<"io error">>

EOF == <<"EOF">>

ErrUnexpectedEOF == <<"unexpected EOF">>

\* fmt.Errorf("<ctx>: %s", e)
Wrap(ctx, e) == <<ctx>> \o e

\* ------------------------------------------------------ the datagram
\* Faulty variant: a split that drops the empty pieces, as strings.Fields does
RECURSIVE SplitNonEmpty(_, _)
SplitNonEmpty(s, sep) ==
    IF \E i \in 1..Len(s) : s[i] = sep
    THEN LET i == CHOOSE k \in 1..Len(s) :
                      s[k] = sep /\ \A j \in 1..(k - 1) : s[j] # sep
             rest == SplitNonEmpty(SubSeq(s, i + 1, Len(s)), sep)
         IN  IF i = 1 THEN rest ELSE <<SubSeq(s, 1, i - 1)>> \o rest
    ELSE IF s = <<>> THEN <<>> ELSE <<s>>

\* strings.Split(s, sep) for a one-character sep: the pieces between the
\* separators, empty pieces included; never an empty list.
RECURSIVE Split(_, _)
Split(s, sep) ==
    IF \E i \in 1..Len(s) : s[i] = sep
    THEN LET i == CHOOSE k \in 1..Len(s) :
                      s[k] = sep /\ \A j \in 1..(k - 1) : s[j] # sep
         IN  <<SubSeq(s, 1, i - 1)>> \o Split(SubSeq(s, i + 1, Len(s)), sep)
    ELSE <<s>>

\* message := string(buffer[:byteSize]): a datagram longer than the buffer is cut.
Message(datagram) == Take(datagram, UdpBufferSize)

\* messageSections := strings.Split(message, " "); port := the last section
PortOf(msg) ==
    LET messageSections == Split(msg, " ")
    IN  messageSections[Len(messageSections)]

Localhost == <<"l", "o", "c", "a", "l", "h", "o", "s", "t", ":">>

\* fmt.Sprintf("localhost:%s", port)
DiscoverAddr(msg) == Localhost \o PortOf(msg)

\* -------------------------------------------------------- the stream
\* Faulty variant: a read that takes one byte more from the connection than
\* the buffer holds
ReadFullGreedy(s, p, n) ==
    IF Len(s) - p >= n
    THEN [buf |-> SubSeq(s, p + 1, p + n), n |-> Min(n + 1, Len(s) - p),
          err |-> Nil]
    ELSE [buf |-> SubSeq(s, p + 1, Len(s)), n |-> Len(s) - p,
          err |-> IF Len(s) - p = 0 THEN EOF ELSE ErrUnexpectedEOF]

\* io.ReadFull(con, buf) with len(buf) = n, no connection error: n bytes when
\* the stream still holds n; otherwise what is left, with io.EOF when nothing was
\* read and io.ErrUnexpectedEOF when some was. With n = 0 nothing is read.
ReadFull(s, p, n) ==
    IF Len(s) - p >= n
    THEN [buf |-> SubSeq(s, p + 1, p + n), n |-> n, err |-> Nil]
    ELSE [buf |-> SubSeq(s, p + 1, Len(s)), n |-> Len(s) - p,
          err |-> IF Len(s) - p = 0 THEN EOF ELSE ErrUnexpectedEOF]

\* io.ReadFull when the connection fails after k of the n bytes (k < n).
ReadFullFault(s, p, n, k) ==
    [buf |-> SubSeq(s, p + 1, p + k), n |-> k, err |-> IoErr]

\* Every way one io.ReadFull(con, buf) can end.
ReadFullOutcomes(s, p, n) ==
    {ReadFull(s, p, n)}
        \cup {ReadFullFault(s, p, n, k) : k \in 0..Min(Len(s) - p, n - 1)}

\* Faulty variant: the length bytes read in big-endian order
BigEndianUint32(b) == b[4] + b[3] * 256 + b[2] * 65536 + b[1] * 16777216

\* binary.LittleEndian.Uint32(lenBuf)
LittleEndianUint32(b) == b[1] + b[2] * 256 + b[3] * 65536 + b[4] * 16777216

\* Faulty variant: receiveFileNameLen that drops io.ReadFull's error
ReceiveFileNameLenUnchecked(rf) == [val |-> 0, err |-> Nil]

\* receiveFileNameLen, given how its io.ReadFull ended
ReceiveFileNameLen(rf) ==
    IF rf.err # Nil
    THEN [val |-> 0, err |-> Wrap("err receiving file name length", rf.err)]
    ELSE [val |-> LittleEndianUint32(rf.buf), err |-> Nil]

\* receiveFileName's return when receiveFileNameLen failed
FileNameLenErr(e) == Wrap("err receiving file name len", e)

\* Faulty variant: receiveFileName that drops io.ReadFull's error
ReceiveFileNameUnchecked(rf) == [val |-> rf.buf, err |-> Nil]

\* receiveFileName's return, given how the io.ReadFull of the name ended
ReceiveFileName(rf) ==
    IF rf.err # Nil
    THEN [val |-> <<>>, err |-> Wrap("err receiving file name", rf.err)]
    ELSE [val |-> rf.buf, err |-> Nil]

\* receiveFile's return when receiveFileName failed
ReceiveFileNameErr(e) == Wrap("err receiving file name", e)

\* receiveFile's return when os.Create failed
CreateErr(e) == Wrap("err creating dest file", e)

\* receiveFile's return when receiveAndSaveFileContent failed
SaveContentErr(e) == Wrap("err receiving and saving file content", e)

\* Handle's return when receiveFile failed
ReceiveFileErr(e) == Wrap("err receiving file", e)

\* Handle's return when discover failed
DiscoverErr(e) == Wrap("err searching for discovery msg", e)

\* Faulty variant: Handle that returns the dial failure
DialErrSurfaced(e) == Wrap("err connecting to peer", e)

\* Handle's return when net.Dial failed: the failure is logged, the loop
\* continues past its only peer and Handle returns nil.
DialErrReturn(e) == Nil

\* Handle's return when con.Close failed
ConCloseErr(e) == Wrap("err closing connection", e)

\* ------------------------------------------------- the destination
\* path.Ext: scan back from index i, stop at a '/', return from the first '.'
\* met. The scan ends at the last index k <= i that holds a '.' or a '/'.
ExtFrom(path, i) ==
    LET stops == {k \in 1..i : path[k] \in {Dot, Slash}}
    IN  IF stops = {} THEN <<>>
        ELSE LET k == CHOOSE m \in stops : \A n \in stops : n <= m
             IN  IF path[k] = Dot THEN SubSeq(path, k, Len(path)) ELSE <<>>

\* Faulty variant: the extension taken from the last '.' of the whole path
ExtIgnoringSlash(path) ==
    IF \E i \in 1..Len(path) : path[i] = Dot
    THEN LET i == CHOOSE k \in 1..Len(path) :
                      path[k] = Dot /\ \A j \in (k + 1)..Len(path) : path[j] # Dot
         IN  SubSeq(path, i, Len(path))
    ELSE <<>>

Ext(path) == ExtFrom(path, Len(path))

\* fmt.Sprintf("%d%s", time.Now().Unix(), fileExt)
PrepareDestFilePath(path, unixNow) == <<unixNow, Ext(path)>>

\* Faulty variant: a create that keeps what an existing file holds
CreateKeep(files, name) ==
    IF name \in DOMAIN files THEN files ELSE (name :> <<>>) @@ files

\* os.Create: the file exists and is empty, whatever it held
Create(files, name) == (name :> <<>>) @@ files

\* Faulty variant: a write at offset 0 in place of a write at the file's end
FileWriteAtStart(files, name, b, m) ==
    [files EXCEPT ![name] = SubSeq(b, 1, m) \o Drop(@, m)]

\* file.Write(b) that writes the first m bytes of b (all of b when it succeeds)
FileWrite(files, name, b, m) ==
    [files EXCEPT ![name] = @ \o SubSeq(b, 1, m)]

\* --------------------------------------------------- the content loop
\* Faulty variant: a read that may also return no bytes and no error
ConReadOutcomesIdle(s, p, size) ==
    {[n |-> k, err |-> Nil] : k \in 0..Min(size, Len(s) - p)}
        \cup (IF Len(s) - p = 0 THEN {[n |-> 0, err |-> EOF]} ELSE {})
        \cup {[n |-> 0, err |-> IoErr]}

\* Every way one con.Read(chunk) can end: a read into an empty buffer returns
\* (0, nil) at once; otherwise at least one and at most len(chunk) of the bytes
\* left, io.EOF once the sender has closed and all its bytes were taken, or a
\* connection error. A read of a TCP connection returns no bytes together
\* with an error.
ConReadOutcomes(s, p, size) ==
    IF size = 0
    THEN {[n |-> 0, err |-> Nil]}
    ELSE {[n |-> k, err |-> Nil] : k \in 1..Min(size, Len(s) - p)}
            \cup (IF Len(s) - p = 0 THEN {[n |-> 0, err |-> EOF]} ELSE {})
            \cup {[n |-> 0, err |-> IoErr]}

\* con.Read(chunk) stores the bytes read at the front of the buffer
FillChunk(buf, s, p, n) == SubSeq(s, p + 1, p + n) \o Drop(buf, n)

\* Faulty variant: file.Write(chunk) in place of file.Write(chunk[:bytesRead])
ChunkSliceWhole(buf, n) == buf

\* chunk[:bytesRead]
ChunkSlice(buf, n) == SubSeq(buf, 1, n)

\* Faulty variant: the loop without its io.EOF case
ReadErrReturnNoEOF(e) == Wrap("err receiving file chunk", e)

\* receiveAndSaveFileContent's return when con.Read returned an error:
\* io.EOF leaves the loop and returns nil
ReadErrReturn(e) ==
    IF e = EOF THEN Nil ELSE Wrap("err receiving file chunk", e)

\* receiveAndSaveFileContent's return when file.Write returned an error
WriteErrReturn(e) == Wrap("err writing chunk to the file", e)

\* How a call ended, for the history: "ok", "eof" (end-of-stream) or "err"
IoKind(e) ==
    IF e = Nil THEN "ok"
    ELSE IF e \in {EOF, ErrUnexpectedEOF} THEN "eof"
    ELSE "err"

\* --------------------------------------------------------- the inputs
\* The sender's side of the wire contract: the length as 4 little-endian bytes
PutUint32(n) ==
    <<n % 256, (n \div 256) % 256, (n \div 65536) % 256, (n \div 16777216) % 256>>

NameBytes == {Dot, 97}

Names == SeqsUpTo(NameBytes, MaxNameLen)

\* Content bytes are their own positions, so that a lost, repeated or moved
\* byte shows.
Content(len) == [i \in 1..len |-> i]

\* What a sender puts on the wire for one file
Wire(name, len) == PutUint32(Len(name)) \o name \o Content(len)

\* A sender may stop anywhere: whole transfers, and name frames cut short
Streams ==
    {Wire(name, len) : name \in Names, len \in 0..MaxContent}
        \cup {Take(Wire(name, 0), k) :
                  name \in Names, k \in 0..(LenPrefixSize + MaxNameLen)}

\* File names with directories in them
PathNames == SeqsUpTo({Dot, Slash, 97}, MaxPath)

\* Lengths that use every byte of the length prefix (the model checker's integers
\* end at 2^31 - 1)
FrameLens == {256, 65536, 16777216, 16909060, 2147483647}

\* A name whose length does not fit one byte
LongName == [i \in 1..256 |-> 97]

\* Transfers with such names, and name frames that declare such lengths and
\* stop after one name byte
NameStreams ==
    {Wire(name, len) : name \in PathNames, len \in 0..1}
        \cup {PutUint32(n) \o <<97>> : n \in FrameLens}
        \cup {Wire(LongName, 1)}

DatagramChars == {"H", "5", " ", "\n"}

Datagrams == SeqsUpTo(DatagramChars, MaxDatagram)

\* The announcements of the spec's examples
Hello == <<"H", "E", "L", "L", "O", " ", "5", "1", "2", "3", "4">>

PortOnly == <<"5", "1", "2", "3", "4">>

NoIo ==
    [bind |-> "none", udp |-> "none", dial |-> "none", len |-> "none",
     name |-> "none", create |-> "none", read |-> "none", write |-> "none",
     fclose |-> "none", cclose |-> "none"]

NoCalls == [bind |-> 0, udp |-> 0, dial |-> 0]

\* NewReceiver(chunkSize, udpDiscoveryPort), before Handle is called
InitReceiver ==
    /\ chunkSize \in 0..MaxChunk
    /\ pc = "ListenUDP"
    /\ udpOpen = FALSE
    /\ message = <<>>
    /\ peer = <<>>
    /\ pos = 0
    /\ conOpen = FALSE
    /\ fileNameLen = 0
    /\ filePath = <<>>
    /\ destFilePath = <<>>
    /\ fs = <<>>
    /\ fileOpen = FALSE
    /\ chunk = <<>>
    /\ bytesRead = 0
    /\ totalBytesReceived = 0
    /\ err = Nil
    /\ result = Nil
    /\ clock = 0
    /\ io = NoIo
    /\ bytesWritten = 0
    /\ calls = NoCalls
    /\ run = 1
    /\ prev = <<>>
    /\ released = <<>>

\* One Handle run against every sender behaviour within the bounds
Init ==
    /\ InitReceiver
    /\ udpInbox \in {<<>>, <<Hello, PortOnly>>}
    /\ stream \in Streams

\* ------------------------------------------------------------ Handle
\* Faulty variant: Handle that goes on to the dial whatever discover returned
HandleAfterDiscoverUnchecked(e) == [pc |-> "Dial", result |-> Nil]

\* Faulty variant: Handle that runs discover again when it failed
HandleAfterDiscoverRetry(e) ==
    IF e # Nil
    THEN [pc |-> "ListenUDP", result |-> Nil]
    ELSE [pc |-> "Dial", result |-> Nil]

\* Handle once discover has returned e
HandleAfterDiscover(e) ==
    IF e # Nil
    THEN [pc |-> "returned", result |-> DiscoverErr(e)]
    ELSE [pc |-> "Dial", result |-> Nil]

\* discover: net.ListenUDP
ListenUDP ==
    /\ pc = "ListenUDP"
    /\ \E ok \in BOOLEAN :
           LET h == HandleAfterDiscover(Wrap("err starting up udp listener", IoErr))
           IN  /\ udpOpen' = ok
               /\ io' = [io EXCEPT !.bind = IF ok THEN "ok" ELSE "err"]
               /\ pc' = IF ok THEN "ReadFromUDP" ELSE h.pc
               /\ result' = IF ok THEN result ELSE h.result
    /\ calls' = [calls EXCEPT !.bind = @ + 1]
    /\ UNCHANGED <<chunkSize, run, prev, message, bytesWritten, udpInbox,
                   peer, stream, pos, conOpen, fileNameLen, filePath,
                   destFilePath, fs, fileOpen, chunk, bytesRead,
                   totalBytesReceived, err, clock, released>>

\* Faulty variant: discover without its deferred con.Close
ReadFromUDPNoClose ==
    /\ pc = "ReadFromUDP"
    /\ \E ok \in BOOLEAN :
           LET e == IF ok THEN Nil ELSE Wrap("err reading from udp", IoErr)
               h == HandleAfterDiscover(e)
           IN  /\ ok => udpInbox # <<>>
               /\ udpInbox' = IF ok THEN Tail(udpInbox) ELSE udpInbox
               /\ message' = IF ok THEN Message(Head(udpInbox)) ELSE message
               /\ peer' = IF ok THEN DiscoverAddr(message') ELSE <<>>
               /\ io' = [io EXCEPT !.udp = IoKind(e)]
               /\ pc' = h.pc
               /\ result' = h.result
    /\ calls' = [calls EXCEPT !.udp = @ + 1]
    /\ UNCHANGED <<chunkSize, run, prev, bytesWritten, stream, pos, conOpen,
                   fileNameLen, filePath, destFilePath, fs, fileOpen, chunk,
                   bytesRead, totalBytesReceived, err, clock, udpOpen,
                   released>>

\* discover: con.ReadFromUDP blocks until a datagram is there, then the message
\* is parsed and the deferred con.Close runs as discover returns. Indexing the
\* last of no sections is a run-time panic: the run stops there.
ReadFromUDP ==
    /\ pc = "ReadFromUDP"
    /\ \E ok \in BOOLEAN :
           LET e == IF ok THEN Nil ELSE Wrap("err reading from udp", IoErr)
               h == HandleAfterDiscover(e)
               panics == ok /\ Split(Message(Head(udpInbox)), " ") = <<>>
           IN  /\ ok => udpInbox # <<>>
               /\ udpInbox' = IF ok THEN Tail(udpInbox) ELSE udpInbox
               /\ message' = IF ok THEN Message(Head(udpInbox)) ELSE message
               /\ peer' = IF ok /\ ~panics THEN DiscoverAddr(message') ELSE <<>>
               /\ io' = [io EXCEPT !.udp = IoKind(e)]
               /\ pc' = IF panics THEN "panicked" ELSE h.pc
               /\ result' = h.result
    /\ udpOpen' = FALSE
    /\ released' = Append(released, "udp")
    /\ calls' = [calls EXCEPT !.udp = @ + 1]
    /\ UNCHANGED <<chunkSize, run, prev, bytesWritten, stream, pos, conOpen,
                   fileNameLen, filePath, destFilePath, fs, fileOpen, chunk,
                   bytesRead, totalBytesReceived, err, clock>>

\* Handle: net.Dial("tcp", peer)
Dial ==
    /\ pc = "Dial"
    /\ \E ok \in BOOLEAN :
           /\ conOpen' = ok
           /\ io' = [io EXCEPT !.dial = IF ok THEN "ok" ELSE "err"]
           /\ pc' = IF ok THEN "receiveFileNameLen" ELSE "returned"
           /\ result' = IF ok THEN result ELSE DialErrReturn(IoErr)
    /\ calls' = [calls EXCEPT !.dial = @ + 1]
    /\ UNCHANGED <<chunkSize, run, prev, message, bytesWritten, udpInbox,
                   udpOpen, peer, stream, pos, fileNameLen, filePath,
                   destFilePath, fs, fileOpen, chunk, bytesRead,
                   totalBytesReceived, err, clock, released>>

\* receiveFileNameLen: io.ReadFull of the 4 length bytes. A failure goes up
\* through receiveFileName and receiveFile to Handle, which returns it.
ReceiveNameLen ==
    /\ pc = "receiveFileNameLen"
    /\ \E rf \in ReadFullOutcomes(stream, pos, LenPrefixSize) :
           LET r == ReceiveFileNameLen(rf)
           IN  /\ pos' = pos + rf.n
               /\ io' = [io EXCEPT !.len = IoKind(rf.err)]
               /\ fileNameLen' = r.val
               /\ pc' = IF r.err = Nil THEN "receiveFileName" ELSE "returned"
               /\ result' = IF r.err = Nil THEN result
                            ELSE ReceiveFileErr(ReceiveFileNameErr(FileNameLenErr(r.err)))
    /\ UNCHANGED <<chunkSize, run, prev, calls, message, bytesWritten,
                   udpInbox, udpOpen, peer, stream, conOpen, filePath,
                   destFilePath, fs, fileOpen, chunk, bytesRead,
                   totalBytesReceived, err, clock, released>>

\* receiveFileName: io.ReadFull of fileNameLen name bytes
ReceiveName ==
    /\ pc = "receiveFileName"
    /\ \E rf \in ReadFullOutcomes(stream, pos, fileNameLen) :
           LET r == ReceiveFileName(rf)
           IN  /\ pos' = pos + rf.n
               /\ io' = [io EXCEPT !.name = IoKind(rf.err)]
               /\ filePath' = r.val
               /\ pc' = IF r.err = Nil THEN "Create" ELSE "returned"
               /\ result' = IF r.err = Nil THEN result
                            ELSE ReceiveFileErr(ReceiveFileNameErr(r.err))
    /\ UNCHANGED <<chunkSize, run, prev, calls, message, bytesWritten,
                   udpInbox, udpOpen, peer, stream, conOpen, fileNameLen,
                   destFilePath, fs, fileOpen, chunk, bytesRead,
                   totalBytesReceived, err, clock, released>>

\* receiveFile: prepareDestFilePath and os.Create; then
\* receiveAndSaveFileContent allocates the chunk buffer and zeroes the total
CreateFile ==
    /\ pc = "Create"
    /\ destFilePath' = PrepareDestFilePath(filePath, clock)
    /\ \E ok \in BOOLEAN :
           /\ fs' = IF ok THEN Create(fs, destFilePath') ELSE fs
           /\ fileOpen' = ok
           /\ io' = [io EXCEPT !.create = IF ok THEN "ok" ELSE "err"]
           /\ pc' = IF ok THEN "Read" ELSE "returned"
           /\ result' = IF ok THEN result ELSE ReceiveFileErr(CreateErr(IoErr))
           /\ chunk' = IF ok THEN [i \in 1..chunkSize |-> 0] ELSE chunk
    /\ totalBytesReceived' = 0
    /\ UNCHANGED <<chunkSize, run, prev, calls, message, bytesWritten,
                   udpInbox, udpOpen, peer, stream, pos, conOpen, fileNameLen,
                   filePath, bytesRead, err, clock, released>>

\* receiveAndSaveFileContent: con.Read(chunk). An error leaves the loop and
\* the function; the total is advanced only after a read without error.
ConRead ==
    /\ pc = "Read"
    /\ \E r \in ConReadOutcomes(stream, pos, Len(chunk)) :
           /\ bytesRead' = r.n
           /\ pos' = pos + r.n
           /\ chunk' = FillChunk(chunk, stream, pos, r.n)
           /\ io' = [io EXCEPT !.read = IoKind(r.err)]
           /\ err' = IF r.err # Nil THEN ReadErrReturn(r.err) ELSE err
           /\ pc' = IF r.err # Nil THEN "fileClose" ELSE "Write"
           /\ totalBytesReceived' =
                  IF r.err # Nil THEN totalBytesReceived
                  ELSE totalBytesReceived + r.n
    /\ UNCHANGED <<chunkSize, run, prev, calls, message, bytesWritten,
                   udpInbox, udpOpen, peer, stream, conOpen, fileNameLen,
                   filePath, destFilePath, fs, fileOpen, result, clock,
                   released>>

\* receiveAndSaveFileContent: file.Write(chunk[:bytesRead]). A write that fails
\* has written m of the bytes, fewer than it was given.
FileWriteChunk ==
    /\ pc = "Write"
    /\ LET b == ChunkSlice(chunk, bytesRead)
       IN  \E m \in 0..Len(b) :
               /\ bytesWritten' = bytesWritten + m
               /\ fs' = FileWrite(fs, destFilePath, b, m)
               /\ io' = [io EXCEPT !.write = IF m = Len(b) THEN "ok" ELSE "err"]
               /\ err' = IF m = Len(b) THEN err ELSE WriteErrReturn(IoErr)
               /\ pc' = IF m = Len(b) THEN "Read" ELSE "fileClose"
    /\ UNCHANGED <<chunkSize, run, prev, calls, message, udpInbox, udpOpen,
                   peer, stream, pos, conOpen, fileNameLen, filePath,
                   destFilePath, fileOpen, chunk, bytesRead,
                   totalBytesReceived, result, clock, released>>

\* Faulty variant: receiveFile without its deferred file.Close
FileCloseMissing ==
    /\ pc = "fileClose"
    /\ pc' = IF err = Nil THEN "conClose" ELSE "returned"
    /\ result' = IF err = Nil THEN result ELSE ReceiveFileErr(SaveContentErr(err))
    /\ UNCHANGED <<chunkSize, run, prev, calls, message, bytesWritten,
                   udpInbox, udpOpen, peer, stream, pos, conOpen, fileNameLen,
                   filePath, destFilePath, fs, chunk, bytesRead,
                   totalBytesReceived, err, clock, io, fileOpen, released>>

\* receiveFile returns: the deferred file.Close runs and its error is dropped.
\* A content error then goes up to Handle, which returns it with the
\* connection as it is.
FileClose ==
    /\ pc = "fileClose"
    /\ \E ok \in BOOLEAN :
           io' = [io EXCEPT !.fclose = IF ok THEN "ok" ELSE "err"]
    /\ fileOpen' = FALSE
    /\ released' = Append(released, "file")
    /\ pc' = IF err = Nil THEN "conClose" ELSE "returned"
    /\ result' = IF err = Nil THEN result ELSE ReceiveFileErr(SaveContentErr(err))
    /\ UNCHANGED <<chunkSize, run, prev, calls, message, bytesWritten,
                   udpInbox, udpOpen, peer, stream, pos, conOpen, fileNameLen,
                   filePath, destFilePath, fs, chunk, bytesRead,
                   totalBytesReceived, err, clock>>

\* Handle: con.Close, then the loop is over and Handle returns nil
ConClose ==
    /\ pc = "conClose"
    /\ \E ok \in BOOLEAN :
           /\ io' = [io EXCEPT !.cclose = IF ok THEN "ok" ELSE "err"]
           /\ result' = IF ok THEN Nil ELSE ConCloseErr(IoErr)
    /\ conOpen' = FALSE
    /\ released' = Append(released, "con")
    /\ pc' = "returned"
    /\ UNCHANGED <<chunkSize, run, prev, calls, message, bytesWritten,
                   udpInbox, udpOpen, peer, stream, pos, fileNameLen,
                   filePath, destFilePath, fs, fileOpen, chunk, bytesRead,
                   totalBytesReceived, err, clock>>

Next ==
    \/ ListenUDP
    \/ ReadFromUDP
    \/ Dial
    \/ ReceiveNameLen
    \/ ReceiveName
    \/ CreateFile
    \/ ConRead
    \/ FileWriteChunk
    \/ FileClose
    \/ ConClose

Spec == Init /\ [][Next]_vars

\* Every call returns: a step that can be taken is taken. Handle is one
\* goroutine of blocking calls, so nothing else is scheduled.
FairSpec == Spec /\ WF_vars(Next)

\* One Handle run against every announcement within the bounds
InitDiscover ==
    /\ InitReceiver
    /\ udpInbox \in {<<d>> : d \in Datagrams \cup {Hello, PortOnly}}
    /\ stream \in {Wire(<<97, Dot, 97>>, 1), <<>>}

SpecDiscover == InitDiscover /\ [][Next]_vars

\* One Handle run against every file name within the bounds
InitNames ==
    /\ InitReceiver
    /\ udpInbox = <<Hello>>
    /\ stream \in NameStreams

SpecNames == InitNames /\ [][Next]_vars

\* ------------------------------------------------------ two transfers
\* The names and contents of two transfers, the second's bytes unlike the
\* first's
TwoRunNames == {<<97, Dot, 97>>, <<Slash, Dot, 97>>, <<97>>}

FirstContent == <<1, 2>>

SecondContents == {<<9>>, <<9, 8, 7>>}

\* Handle is called a second time once it has returned: the files and the
\* clock stay, everything else starts anew against another sender
HandleAgain ==
    /\ pc = "returned"
    /\ run = 1
    /\ run' = run + 1
    /\ prev' = [destFilePath |-> destFilePath, stream |-> stream, io |-> io,
                result |-> result, clock |-> clock]
    /\ pc' = "ListenUDP"
    /\ udpInbox' = <<Hello>>
    /\ stream' \in {PutUint32(Len(n)) \o n \o c :
                        n \in TwoRunNames, c \in SecondContents}
    /\ udpOpen' = FALSE
    /\ message' = <<>>
    /\ peer' = <<>>
    /\ pos' = 0
    /\ conOpen' = FALSE
    /\ fileNameLen' = 0
    /\ filePath' = <<>>
    /\ destFilePath' = <<>>
    /\ fileOpen' = FALSE
    /\ chunk' = <<>>
    /\ bytesRead' = 0
    /\ totalBytesReceived' = 0
    /\ err' = Nil
    /\ result' = Nil
    /\ io' = NoIo
    /\ bytesWritten' = 0
    /\ calls' = NoCalls
    /\ released' = <<>>
    /\ UNCHANGED <<chunkSize, fs, clock>>

\* time.Now().Unix() moves on to the next second while a run is under way
Tick ==
    /\ pc # "returned"
    /\ clock < MaxClock
    /\ clock' = clock + 1
    /\ UNCHANGED <<chunkSize, pc, udpInbox, udpOpen, message, peer, stream,
                   pos, conOpen, fileNameLen, filePath, destFilePath, fs,
                   fileOpen, chunk, bytesRead, totalBytesReceived, err,
                   result, io, bytesWritten, calls, run, prev, released>>

NextTwoRuns ==
    \/ Next
    \/ HandleAgain
    \/ Tick

InitTwoRuns ==
    /\ InitReceiver
    /\ chunkSize = MaxChunk
    /\ udpInbox = <<Hello>>
    /\ stream \in {PutUint32(Len(n)) \o n \o FirstContent : n \in TwoRunNames}

\* Two Handle runs, one after the other, while the seconds pass
SpecTwoRuns == InitTwoRuns /\ [][NextTwoRuns]_vars

\* ===================================================================
\* What the claims speak of
\* ===================================================================

\* The sender's transfers within the bounds, as <<name, content length>>
Transfers == Names \X (0..MaxContent)

\* The stream is a whole transfer: a complete name frame, then content
WholeTransfer == \E w \in Transfers : stream = Wire(w[1], w[2])

\* The bytes the sender fed into the stream after the name frame
SentContent ==
    IF WholeTransfer
    THEN LET w == CHOOSE x \in Transfers : stream = Wire(x[1], x[2])
         IN  Content(w[2])
    ELSE <<>>

\* The stream ends inside the 4 length bytes
TruncatedLen == Len(stream) < LenPrefixSize

\* The stream holds a whole length N and fewer than N name bytes
TruncatedName ==
    /\ ~TruncatedLen
    /\ \E name \in Names :
           /\ IsPrefix(stream, Wire(name, 0))
           /\ stream # Wire(name, 0)

\* receiveAndSaveFileContent has returned (its return value is err)
ContentDone == pc = "fileClose" \/ io.fclose # "none"

\* The content of the destination file, empty when there is none
DestContent == IF destFilePath \in DOMAIN fs THEN fs[destFilePath] ELSE <<>>

Returned == pc = "returned"

\* ---------------------------------------------------------------- C1
\* C1: streaming fidelity. When receiveAndSaveFileContent returns nil, the
\* destination file holds exactly the bytes the sender fed into the stream
\* after the name frame, in order, and totalBytesReceived is their number;
\* whatever the chunk size and however the connection split the reads.
C1_StreamingFidelity ==
    (ContentDone /\ err = Nil) =>
        /\ destFilePath \in DOMAIN fs
        /\ fs[destFilePath] = SentContent
        /\ totalBytesReceived = Len(SentContent)

\* A transfer of 3 content bytes through a 2-byte chunk buffer ended well
C1_Witness ==
    /\ ContentDone
    /\ err = Nil
    /\ chunkSize = 2
    /\ Len(SentContent) = 3
    /\ DestContent = <<1, 2, 3>>

\* ---------------------------------------------------------------- C2
\* C2: truncated handshake. When the stream ends inside the length bytes, or
\* after a whole length N and fewer than N name bytes, and the read reaches
\* that end, Handle returns the error of that read (non-nil); and whatever
\* happens no destination file is created and no content read is made.
C2_TruncatedHandshake ==
    /\ (TruncatedLen /\ io.len = "eof") =>
           /\ Returned
           /\ result \in
                  {<<"err receiving file", "err receiving file name",
                     "err receiving file name len",
                     "err receiving file name length", c>> :
                       c \in {"EOF", "unexpected EOF"}}
    /\ (TruncatedName /\ io.name = "eof") =>
           /\ Returned
           /\ result \in
                  {<<"err receiving file", "err receiving file name",
                     "err receiving file name", c>> :
                       c \in {"EOF", "unexpected EOF"}}
    /\ (TruncatedLen \/ TruncatedName) =>
           /\ io.create = "none"
           /\ io.read = "none"
           /\ fs = <<>>
           /\ pc \notin {"Create", "Read", "Write", "fileClose", "conClose"}
    /\ io.len = "eof" => TruncatedLen
    /\ io.name = "eof" => TruncatedName

\* A stream that ended inside the name, and the name read that met the end
C2_Witness ==
    /\ TruncatedName
    /\ io.name = "eof"
    /\ Returned
    /\ Len(stream) > LenPrefixSize

\* ---------------------------------------------------------------- C3
\* C3: a session that fails after the connection was opened has released
\* what it acquired by the time Handle returns the error: the connection is
\* closed and so is the destination file, if it was created.
C3_ReleasedOnFailure ==
    (Returned /\ result # Nil /\ io.dial = "ok") => (~conOpen /\ ~fileOpen)

\* ---------------------------------------------------------------- C4
\* The protocol step of each position of Handle
Phase ==
    CASE pc \in {"ListenUDP", "ReadFromUDP"} -> 0
      [] pc = "Dial" -> 1
      [] pc = "receiveFileNameLen" -> 2
      [] pc = "receiveFileName" -> 3
      [] pc \in {"Create", "Read", "Write"} -> 4
      [] OTHER -> 5

C4_Order ==
    /\ io.dial # "none" => (io.udp = "ok" /\ IsPrefix(Localhost, peer))
    /\ (io.len # "none" \/ pos > 0) => io.dial = "ok"
    /\ io.name # "none" => io.len = "ok"
    /\ io.create # "none" =>
           /\ io.name = "ok"
           /\ WholeTransfer
           /\ pos >= Len(stream) - Len(SentContent)
    /\ io.read # "none" => (io.create = "ok" /\ pos >= LenPrefixSize + fileNameLen)

C4_Step ==
    /\ Phase' >= Phase
    /\ (Phase' > Phase + 1) => pc' = "returned"
    /\ (pc \in {"ListenUDP", "ReadFromUDP", "Dial", "receiveFileNameLen",
                "receiveFileName", "Create", "fileClose", "conClose"})
           => pc' # pc

\* C4: the steps of one Handle run happen in the order discovery, Connecting,
\* AwaitingNameLength, AwaitingName, StreamingContent, Closed, none repeated or
\* revisited: the dial follows a discovery read that gave an address, no byte
\* is read before the dial succeeded, and the name frame is consumed whole
\* before the destination file is created and before the first content read.
C4_StrictOrder == []C4_Order /\ [][C4_Step]_vars

\* A run went through every step and closed the connection
C4_Witness ==
    /\ Returned
    /\ io.cclose = "ok"
    /\ totalBytesReceived = 3
    /\ fileNameLen = 2

\* ---------------------------------------------------------------- C5
\* C5: the content phase ends with nil exactly when a connection read
\* reported end-of-stream; any other read error ends it with the chunk-read
\* error, a write error with the chunk-write error, and the loop has no
\* other exit.
C5_ContentExit ==
    /\ ContentDone =>
           /\ (err = Nil) <=> (io.read = "eof")
           /\ io.read = "err" => err = <<"err receiving file chunk", "io error">>
           /\ io.write = "err" => err = <<"err writing chunk to the file", "io error">>
           /\ io.read \in {"eof", "err"} \/ io.write = "err"
    /\ (io.read \in {"eof", "err"} \/ io.write = "err") => ContentDone

\* The content phase ended on end-of-stream after bytes were copied
C5_Witness ==
    /\ ContentDone
    /\ io.read = "eof"
    /\ err = Nil
    /\ totalBytesReceived >= 1
\* ---------------------------------------------------------------- C6
\* No call of the run failed for a reason of its own (the stream ending
\* early is the sender's doing, not such a failure)
NoFault == \A k \in DOMAIN io : io[k] # "err"

\* How a session must end by the sender's bytes alone
PeerOutcome ==
    IF TruncatedLen THEN "err receiving file name len"
    ELSE IF TruncatedName THEN "err receiving file name"
    ELSE "nil"

\* How the session ended: nil, or the context that tells the phase
Outcome == IF result = Nil THEN "nil" ELSE result[3]

C6_SameOutcome ==
    (Returned /\ io.dial = "ok" /\ NoFault) =>
        /\ Outcome = PeerOutcome
        /\ DestContent = SentContent

\* C6: chunkSize does not affect correctness. For the same bytes sent, the
\* session of every chunkSize NewReceiver accepts ends, and ends as the
\* sender's bytes alone decide: with the same outcome and the same
\* destination content as the session of any other chunkSize.
C6_ChunkSizeIrrelevant ==
    /\ []C6_SameOutcome
    /\ (io.dial = "ok") ~> Returned

\* ---------------------------------------------------------------- C7
Whitespace == {" ", "\n"}

\* The last whitespace-delimited token of a text, empty when it has none
RECURSIVE LastToken(_)
LastToken(s) ==
    IF s = <<>> THEN <<>>
    ELSE IF s[Len(s)] \in Whitespace THEN LastToken(SubSeq(s, 1, Len(s) - 1))
    ELSE IF \E i \in 1..Len(s) : s[i] \in Whitespace
         THEN LET i == CHOOSE k \in 1..Len(s) :
                           s[k] \in Whitespace
                               /\ \A j \in (k + 1)..Len(s) : s[j] \notin Whitespace
              IN  SubSeq(s, i + 1, Len(s))
         ELSE s

\* The text holds a token
HasToken(s) == \E i \in 1..Len(s) : s[i] \notin Whitespace

\* C7: discovery parsing. For every datagram text (that holds a token)
\* discover returns "localhost:" followed by the last whitespace-delimited
\* token of the text.
C7_LastWhitespaceToken ==
    (io.udp = "ok" /\ HasToken(message)) =>
        peer = Localhost \o LastToken(message)

\* ---------------------------------------------------------------- C8
\* C8: when the dial fails the peer is skipped: nothing is read from a
\* connection, no destination file is created, and Handle returns nil.
C8_DialFailureSkipped ==
    io.dial = "err" =>
        /\ Returned
        /\ result = Nil
        /\ ~conOpen
        /\ pos = 0
        /\ io.len = "none"
        /\ io.name = "none"
        /\ io.read = "none"
        /\ io.create = "none"
        /\ fs = <<>>

\* The dial to a discovered peer failed and Handle returned
C8_Witness ==
    /\ io.dial = "err"
    /\ Returned
    /\ peer = Localhost \o PortOnly
    /\ Len(stream) > 0

\* ---------------------------------------------------------------- C9
\* C9: a discovery failure is fatal to the run. When the bind or the
\* datagram read fails, Handle returns a non-nil error, and never dials,
\* never reads a name frame and never creates a destination file.
C9_DiscoveryFailureFatal ==
    (io.bind = "err" \/ io.udp = "err") =>
        /\ Returned
        /\ result # Nil
        /\ result[1] = "err searching for discovery msg"
        /\ io.dial = "none"
        /\ ~conOpen
        /\ pos = 0
        /\ io.len = "none"
        /\ io.create = "none"
        /\ fs = <<>>

\* The datagram read failed on a bound endpoint and Handle returned
C9_Witness ==
    /\ io.bind = "ok"
    /\ io.udp = "err"
    /\ Returned
    /\ udpInbox # <<>>

\* --------------------------------------------------------------- C10
\* The content phase returned an error
ContentFailed == ContentDone /\ err # Nil

\* C10: no rollback. When the content phase fails after k content bytes were
\* written, the destination file exists once Handle has returned the error
\* and holds exactly those k bytes, a prefix of the content the sender sent.
C10_PartialFileKept ==
    ContentFailed =>
        /\ destFilePath \in DOMAIN fs
        /\ Len(fs[destFilePath]) = bytesWritten
        /\ IsPrefix(fs[destFilePath], SentContent)
        /\ Returned => result # Nil

\* Handle returned a write error with 2 of 3 content bytes in the file
C10_Witness ==
    /\ ContentFailed
    /\ Returned
    /\ io.write = "err"
    /\ DestContent = <<1, 2>>
    /\ Len(SentContent) = 3
\* --------------------------------------------------------------- C11
\* The last index of byte b in s, 0 when s has none
LastIndexOf(s, b) ==
    IF \E i \in 1..Len(s) : s[i] = b
    THEN CHOOSE k \in 1..Len(s) : s[k] = b /\ \A j \in (k + 1)..Len(s) : s[j] # b
    ELSE 0

\* The substring from (and including) the last '.', empty without a '.'
FromLastDot(s) ==
    IF LastIndexOf(s, Dot) = 0 THEN <<>> ELSE SubSeq(s, LastIndexOf(s, Dot), Len(s))

\* The last element of a path: what follows its last '/'
LastElement(s) == Drop(s, LastIndexOf(s, Slash))

\* C11 as stated: the extension appended to the timestamp is the substring of
\* the received name from its last '.' to the end, empty without a '.'.
C11_ExtFromLastDotOfName ==
    io.create # "none" => destFilePath = <<clock, FromLastDot(filePath)>>

\* C11 amended: the extension appended to the timestamp is the substring of
\* the name's last path element (what follows its last '/') from that
\* element's last '.' to the end, empty when that element has no '.'; so it
\* does not depend on the directory components of the name.
C11_ExtFromLastDotOfLastElement ==
    io.create # "none" =>
        destFilePath = <<clock, FromLastDot(LastElement(filePath))>>

\* A name with a '.' in its directory and another in its last element
C11_Witness ==
    /\ io.create = "ok"
    /\ filePath = <<Dot, Slash, Dot, 97>>
    /\ destFilePath = <<0, <<Dot, 97>>>>

\* --------------------------------------------------------------- C12
\* The names the sender frames, and the lengths it declares
FramedNames == PathNames \cup {LongName}

DeclaredLens == {Len(name) : name \in FramedNames} \cup FrameLens

\* C12: round-trip framing. When the stream carries L as 4 little-endian
\* bytes and the length read succeeds, receiveFileNameLen returns L; when the
\* L name bytes follow, neither read meets the end of the stream, and a name
\* read that succeeds returns exactly those L bytes.
C12_FramingRoundTrip ==
    /\ \A L \in DeclaredLens :
           (IsPrefix(PutUint32(L), stream) /\ io.len = "ok") => fileNameLen = L
    /\ \A name \in FramedNames :
           IsPrefix(PutUint32(Len(name)) \o name, stream) =>
               /\ io.len # "eof"
               /\ io.name # "eof"
               /\ io.name = "ok" => filePath = name

\* A name of 256 bytes, whose length uses the second length byte, came through
C12_Witness ==
    /\ io.name = "ok"
    /\ fileNameLen = 256
    /\ filePath = LongName
    /\ Take(stream, LenPrefixSize) = <<0, 1, 0, 0>>

\* --------------------------------------------------------------- C13
\* A call of the run other than the dial and the file close failed
FailedBeforeClose ==
    \/ io.bind = "err"
    \/ io.udp = "err"
    \/ io.len \in {"err", "eof"}
    \/ io.name \in {"err", "eof"}
    \/ io.create = "err"
    \/ io.read = "err"
    \/ io.write = "err"
    \/ io.cclose = "err"

\* C13: every I/O failure of a Handle run other than the dial failure is
\* surfaced: when the bind, the datagram read, the name-length read, the name
\* read, the file creation, a content read, a content write, the close of the
\* destination file or the close of the connection failed, Handle returns a
\* non-nil error.
C13_AllFailuresSurfaced ==
    (Returned /\ (FailedBeforeClose \/ io.fclose = "err")) => result # Nil

\* --------------------------------------------------------------- C14
\* Handle returned nil after receiveFile returned nil
SucceededTransfer == Returned /\ result = Nil /\ io.dial = "ok"

\* C14: on a successful transfer both resources are released, in order. When
\* Handle returns nil after receiveFile succeeded, the destination file has
\* been closed and the connection has been closed, the file first.
C14_ReleasedInOrder ==
    SucceededTransfer =>
        /\ ~fileOpen
        /\ ~conOpen
        /\ released = <<"udp", "file", "con">>

\* A transfer of content succeeded
C14_Witness ==
    /\ SucceededTransfer
    /\ io.create = "ok"
    /\ io.cclose = "ok"
    /\ DestContent = <<1, 2>>

\* --------------------------------------------------------------- C15
\* C15: the discovery endpoint is released whatever the outcome. Once discover
\* has returned after a bind that succeeded, with an address or with a read
\* error, the UDP endpoint is closed; it is closed before the dial starts and
\* it is the first thing released.
C15_EndpointReleased ==
    /\ (io.bind = "ok" /\ io.udp # "none") =>
           (~udpOpen /\ released # <<>> /\ released[1] = "udp")
    /\ (pc = "Dial" \/ io.dial # "none") =>
           (~udpOpen /\ released # <<>> /\ released[1] = "udp")
    /\ udpOpen => pc = "ReadFromUDP"

\* discover returned an address and the dial has not started
C15_Witness ==
    /\ pc = "Dial"
    /\ io.udp = "ok"
    /\ io.dial = "none"
    /\ released = <<"udp">>
    /\ ~udpOpen

\* --------------------------------------------------------------- C16
\* The length N the sender declared, when the stream holds its 4 bytes
DeclaredLen ==
    CHOOSE L \in 0..MaxNameLen : IsPrefix(PutUint32(L), stream)

\* C16: the name frame is consumed exactly. With declared length N the
\* receiver has taken exactly 4 + N bytes from the connection when the name
\* read has succeeded and until the first content read, so the first byte
\* written to the destination file is the stream byte at offset 4 + N; also
\* for N = 0.
C16_NameFrameExact ==
    /\ io.len = "ok" =>
           /\ fileNameLen = DeclaredLen
           /\ io.name = "none" => pos = LenPrefixSize
    /\ (io.name = "ok" /\ io.read = "none") => pos = LenPrefixSize + DeclaredLen
    /\ io.read # "none" => pos >= LenPrefixSize + DeclaredLen
    /\ DestContent # <<>> =>
           DestContent[1] = stream[LenPrefixSize + DeclaredLen + 1]

\* An empty name: the content written starts at offset 4
C16_Witness ==
    /\ io.name = "ok"
    /\ fileNameLen = 0
    /\ filePath = <<>>
    /\ DestContent # <<>>
    /\ DestContent[1] = stream[LenPrefixSize + 1]

\* --------------------------------------------------------------- C17
\* The calls a run makes once, and those the content loop repeats
OnceCalls == {"bind", "udp", "dial", "len", "name", "create", "fclose", "cclose"}

LoopCalls == {"read", "write"}

\* A call of the run failed (the dial included)
SomeFailure ==
    \/ \E k \in DOMAIN io : io[k] = "err"
    \/ io.len = "eof"
    \/ io.name = "eof"

C17_Once ==
    /\ calls.bind <= 1
    /\ calls.udp <= 1
    /\ calls.dial <= 1
    /\ io.udp = "ok" => (message = Hello /\ udpInbox = <<PortOnly>>)
    /\ io.udp # "ok" => udpInbox \in {<<>>, <<Hello, PortOnly>>}
    /\ SomeFailure => pc \in {"fileClose", "conClose", "returned"}
    /\ (SomeFailure /\ io.fclose # "err") => pc \in {"fileClose", "returned"}

C17_NoRepeat ==
    /\ \A k \in OnceCalls : io[k] # "none" => io'[k] = io[k]
    /\ \A k \in LoopCalls : io[k] \in {"err", "eof"} => io'[k] = io[k]
    /\ SomeFailure => pc' \in {"fileClose", "conClose", "returned"}

\* C17: there is no retry. In one Handle run the endpoint is bound at most
\* once and read at most once (one datagram is consumed, a later one is never
\* read), the peer is dialled at most once, no call that was made is made
\* again other than the reads and writes of the content loop, and after a
\* failure only the closes and the return follow.
C17_NoRetry == []C17_Once /\ [][C17_NoRepeat]_vars

\* The name read failed on a dialled connection and the run ended, with the
\* second datagram unread
C17_Witness ==
    /\ Returned
    /\ io.name = "err"
    /\ calls = [bind |-> 1, udp |-> 1, dial |-> 1]
    /\ udpInbox = <<PortOnly>>
    /\ result # Nil

\* --------------------------------------------------------------- C18
\* The name and the content a sender put on the wire
FrameLenOf(st) == CHOOSE L \in 0..MaxPath : IsPrefix(PutUint32(L), st)

NameOf(st) == SubSeq(st, LenPrefixSize + 1, LenPrefixSize + FrameLenOf(st))

ContentOf(st) == Drop(st, LenPrefixSize + FrameLenOf(st))

\* Both transfers completed: each Handle run closed its connection and
\* returned nil
BothCompleted ==
    /\ run = 2
    /\ prev.io.cclose = "ok"
    /\ prev.result = Nil
    /\ Returned
    /\ io.cclose = "ok"
    /\ result = Nil

SameExtension ==
    FromLastDot(LastElement(NameOf(prev.stream)))
        = FromLastDot(LastElement(NameOf(stream)))

\* C18 as stated: two transfers that complete within the same second with
\* the same extension use the same destination name, and the file then holds
\* the second's content.
C18_CollisionOnCompletion ==
    (BothCompleted /\ prev.clock = clock /\ SameExtension) =>
        /\ destFilePath = prev.destFilePath
        /\ fs[destFilePath] = ContentOf(stream)

\* C18 amended: two transfers, one after the other, whose destination names
\* are prepared within the same second (when the name has been received,
\* before the content) with the same extension use the same destination
\* name; from the second's create on the file holds only bytes of the
\* second's content, and exactly that content once the second has finished.
C18_CollisionOnNaming ==
    (run = 2 /\ prev.io.create = "ok" /\ io.create = "ok"
         /\ prev.destFilePath[1] = destFilePath[1] /\ SameExtension) =>
        /\ destFilePath = prev.destFilePath
        /\ DOMAIN fs = {destFilePath}
        /\ IsPrefix(fs[destFilePath], ContentOf(stream))
        /\ (Returned /\ result = Nil) => fs[destFilePath] = ContentOf(stream)

\* The second transfer, shorter than the first, finished on the first's name
C18_Witness ==
    /\ BothCompleted
    /\ prev.io.write = "ok"
    /\ prev.destFilePath = destFilePath
    /\ NameOf(prev.stream) # NameOf(stream)
    /\ fs[destFilePath] = <<9>>

\* --------------------------------------------------------------- C19
\* C19: discover never fails with an out-of-range index, whatever the
\* datagram, an empty one and one of spaces only included: the split of the
\* message has at least one element, its last element is taken and discover
\* returns the address "localhost:" followed by it.
C19_LastSectionDefined ==
    /\ pc # "panicked"
    /\ io.udp = "ok" =>
           LET messageSections == Split(message, " ")
           IN  /\ Len(messageSections) >= 1
               /\ peer = Localhost \o messageSections[Len(messageSections)]
               /\ pc # "ReadFromUDP"

\* A datagram of two spaces gave the address with an empty port
C19_Witness ==
    /\ io.udp = "ok"
    /\ message = <<" ", " ">>
    /\ peer = Localhost
    /\ pc = "Dial"

\* --------------------------------------------------------------- C20
\* An iteration of the content loop that does not leave the loop takes at
\* least one byte from the connection
C20_IterationConsumes ==
    (chunkSize >= 1 /\ pc = "Read" /\ pc' = "Write") =>
        (pos' > pos /\ bytesRead' >= 1)

\* C20: the content phase terminates. With chunkSize >= 1, a sender that
\* sends finitely many bytes and closes, and every call returning,
\* receiveAndSaveFileContent returns and then Handle returns; every loop
\* iteration that does not exit consumes at least one content byte.
C20_ContentTerminates ==
    /\ (chunkSize >= 1 /\ pc = "Read") ~> ContentDone
    /\ (chunkSize >= 1 /\ io.create = "ok") ~> Returned
    /\ [][C20_IterationConsumes]_vars

\* Three iterations of one byte each, then end-of-stream and the return
C20_Witness ==
    /\ chunkSize = 1
    /\ Returned
    /\ io.read = "eof"
    /\ totalBytesReceived = 3
    /\ pos = Len(stream)

====
